---- MODULE Spec2Model ----
(***************************************************************************)
(* Soil Water Model (SWM): the daily water-balance recurrence and the      *)
(* parameter sweep of the scripts SWM_ArcGIS.py, SWM_ArcGIS_multi.py       *)
(* (= SWM_Console_multi.py) and SWM_Console_query.py.                      *)
(*                                                                         *)
(* Raster cell values are exact rationals <<n, d>> (d > 0, lowest terms);  *)
(* the NoData cell of the raster algebra is <<0, 0>>.  The arithmetic is   *)
(* the arithmetic over the reals: floating-point rounding is not modelled. *)
(***************************************************************************)
EXTENDS Integers, Sequences, FiniteSets, TLC

(***************************************************************************)
(* Bounds of the model.                                                    *)
(***************************************************************************)
\* number of cells of the catchment grid
NCells == 2
\* largest number of rows of the climate table TempFeuchte
MaxRecords == 2
\* a day is stepped only while every soil-water cell is n/d with d <= MaxDen
MaxDen == 13
\* ... and |n| <= MaxNum (keeps the exact arithmetic inside TLC's integers)
MaxNum == 2000
\* largest number of rows of the climate table in the runs over a three-day period
MaxDays == 3
\* the loops that build the sweep lists are followed up to lists of MaxList values
MaxList == 4

Cells == 1..NCells

(***************************************************************************)
(* Exact rational arithmetic with NoData propagation (arcpy.sa map         *)
(* algebra: an operator applied to a NoData cell gives NoData, a division  *)
(* by zero gives NoData).                                                  *)
(***************************************************************************)
NoData == <<0, 0>>
IsNoData(v) == v[2] = 0
Abs(i) == IF i < 0 THEN -i ELSE i

RECURSIVE GCD(_, _)
GCD(a, b) == IF b = 0 THEN a ELSE GCD(b, a % b)

Norm(n, d) ==
    LET g == GCD(Abs(n), Abs(d))
        sg == IF d < 0 THEN -1 ELSE 1
    IN  <<sg * (n \div g), sg * (d \div g)>>
\* the rational n/d, d # 0
Rat(n, d) == IF d < 0 THEN Norm(-n, -d) ELSE Norm(n, d)
Whole(n) == <<n, 1>>
Zero == Whole(0)
One == Whole(1)

Add(a, b) ==
    IF IsNoData(a) \/ IsNoData(b) THEN NoData
    ELSE LET g == GCD(a[2], b[2])
         IN  Norm(a[1] * (b[2] \div g) + b[1] * (a[2] \div g), (a[2] \div g) * b[2])
Neg(a) == IF IsNoData(a) THEN NoData ELSE <<-a[1], a[2]>>
Sub(a, b) == Add(a, Neg(b))
Mul(a, b) ==
    IF IsNoData(a) \/ IsNoData(b) THEN NoData
    ELSE LET g1 == GCD(Abs(a[1]), b[2])
             g2 == GCD(Abs(b[1]), a[2])
         IN  Norm((a[1] \div g1) * (b[1] \div g2), (a[2] \div g2) * (b[2] \div g1))
Div(a, b) ==
    IF IsNoData(a) \/ IsNoData(b) \/ b[1] = 0 THEN NoData
    ELSE Mul(a, IF b[1] < 0 THEN <<-b[2], -b[1]>> ELSE <<b[2], b[1]>>)
Sq(a) == Mul(a, a)

\* order of two defined values
Less(a, b) == a[1] * b[2] < b[1] * a[2]
Bool(t) == IF t THEN One ELSE Zero
\* relational operators of the map algebra: 1, 0 or NoData
GT(a, b) == IF IsNoData(a) \/ IsNoData(b) THEN NoData ELSE Bool(Less(b, a))
GE(a, b) == IF IsNoData(a) \/ IsNoData(b) THEN NoData ELSE Bool(~Less(a, b))
EQ(a, b) == IF IsNoData(a) \/ IsNoData(b) THEN NoData ELSE Bool(a = b)
\* Con(condition, true value, false value), cell by cell
Con(cnd, a, b) == IF IsNoData(cnd) THEN NoData ELSE IF cnd # Zero THEN a ELSE b
\* Con(condition, true value): no false value, the cell becomes NoData
Con2(cnd, a) == Con(cnd, a, NoData)

\* floor of a defined value, and Python's int(): truncation towards zero
Floor(a) == a[1] \div a[2]
PyInt(a) == IF a[1] < 0 THEN -((-a[1]) \div a[2]) ELSE a[1] \div a[2]
\* round(x, 2): the nearest multiple of 1/100
Round2(a) == Rat(Floor(Add(Mul(a, Whole(100)), Rat(1, 2))), 100)

(***************************************************************************)
(* Grids: one value per cell.  Operators of the map algebra apply cell by  *)
(* cell.                                                                   *)
(***************************************************************************)
Const(v) == [x \in Cells |-> v]
RECURSIVE SumTo(_, _)
SumTo(g, n) == IF n = 0 THEN Zero ELSE Add(SumTo(g, n - 1), g[n])

(***************************************************************************)
(* Program state.  The names are the module-level names of the scripts.    *)
(***************************************************************************)
VARIABLES
    script,              \* which script runs
    fk, wp, water, l_m,  \* static rasters of the base geodatabase
    haude_dic,           \* month -> Haude factor raster
    s_init,              \* initial soil water raster
    climatedata,         \* table TempFeuchte, in storage order
    p_data,              \* table N_Zeitreihen: Tagesid -> Tagessumme_mm
    start, end,          \* first and last Tagesid of the period
    cellsize,
    parameters,          \* rp_factor_min/max/step, c_min/max/step as entered
    rp_factor, c,        \* sweep lists (one element in the single-run scripts)
    check,               \* persistence toggles check_pet .. check_s
    pc,                  \* position of the script
    z, y,                \* indices of the sweep loops
    rp, rpwp_dif, lambda_parameter,
    parameter_day, parameter_yesterday, outname,
    cursor,              \* rows the SearchCursor has not yet returned
    id_yesterday,
    s_pre,               \* soil water of the previous day
    pet, aet, precipitation, runoff, runoff_m3, s,
    tables,              \* result tables: name -> rows
    rasters,             \* raster files in the workspace
    s_pre_raster,        \* the s_pre argument of the last get_aet/get_runoff/get_soilwater
    log,                 \* history: one record per processed day
    basin,               \* SWM_Test.py: cell -> Id of the basin polygon over it (0: none)
    p_temp,              \* SWM_Test.py: station -> Tagessumme_mm of the table p_temp
    runoff_daily, id_list, date_list   \* SWM_Test.py: the lists of the result table

static == <<script, fk, wp, water, l_m, haude_dic, s_init, climatedata, p_data, start, end,
            cellsize, parameters, rp_factor, c, check>>
sweep == <<z, y, rp, rpwp_dif, lambda_parameter, parameter_day, parameter_yesterday, outname>>
day == <<id_yesterday, s_pre, pet, aet, precipitation, runoff, runoff_m3, s, s_pre_raster, log>>
test == <<basin, p_temp, runoff_daily, id_list, date_list>>
vars == <<static, sweep, day, pc, cursor, tables, rasters, test>>

(***************************************************************************)
(* The functions of the scripts.                                           *)
(***************************************************************************)
\* 10 ** e for the exponents the modelled temperatures produce; 10 ** (125/412)
\* = 2.0109... is tabulated as 2
Pow10(e) == IF e = Zero THEN One ELSE Whole(2)

\* get_pet that takes the humidity as a fraction
get_pet_fraction(haude_factor, temperature, humidity) ==
    LET es == Mul(Rat(61, 10),
                  Pow10(Div(Mul(Rat(15, 2), temperature), Add(temperature, Rat(1186, 5)))))
    IN  [x \in Cells |-> Mul(Mul(haude_factor[x], es), Sub(One, humidity))]

\* SWM_ArcGIS.py get_pet, the raster expression
get_pet(haude_factor, temperature, humidity) ==
    LET es == Mul(Rat(61, 10),
                  Pow10(Div(Mul(Rat(15, 2), temperature), Add(temperature, Rat(1186, 5)))))
    IN  [x \in Cells |->
            Mul(Mul(haude_factor[x], es), Sub(One, Div(humidity, Whole(100))))]

\* get_aet without the water-mask test
get_aet_noWaterTest(pet_raster, water_raster, s_pre_r, rp_raster, rpwp_dif_raster, wp_raster) ==
    [x \in Cells |->
        Con(GE(s_pre_r[x], rp_raster[x]), pet_raster[x],
            Con(EQ(rpwp_dif_raster[x], Zero), Zero,
                Mul(Div(Sub(s_pre_r[x], wp_raster[x]), rpwp_dif_raster[x]), pet_raster[x])))]
\* get_aet without the reduction-point test
get_aet_noRpTest(pet_raster, water_raster, s_pre_r, rp_raster, rpwp_dif_raster, wp_raster) ==
    [x \in Cells |->
        Con(EQ(water_raster[x], One), pet_raster[x],
            Con(EQ(rpwp_dif_raster[x], Zero), Zero,
                Mul(Div(Sub(s_pre_r[x], wp_raster[x]), rpwp_dif_raster[x]), pet_raster[x])))]
\* get_aet without the test rpwp_dif == 0
get_aet_noZeroGuard(pet_raster, water_raster, s_pre_r, rp_raster, rpwp_dif_raster, wp_raster) ==
    [x \in Cells |->
        Con(EQ(water_raster[x], One), pet_raster[x],
            Con(GE(s_pre_r[x], rp_raster[x]), pet_raster[x],
                Mul(Div(Sub(s_pre_r[x], wp_raster[x]), rpwp_dif_raster[x]), pet_raster[x])))]
\* get_aet with the stress quotient taken over the reduction point
get_aet_overRp(pet_raster, water_raster, s_pre_r, rp_raster, rpwp_dif_raster, wp_raster) ==
    [x \in Cells |->
        Con(EQ(water_raster[x], One), pet_raster[x],
            Con(GE(s_pre_r[x], rp_raster[x]), pet_raster[x],
                Con(EQ(rpwp_dif_raster[x], Zero), Zero,
                    Mul(Div(Sub(s_pre_r[x], wp_raster[x]), rp_raster[x]), pet_raster[x]))))]

\* get_aet, the raster expression (the same in every script)
get_aet(pet_raster, water_raster, s_pre_r, rp_raster, rpwp_dif_raster, wp_raster) ==
    [x \in Cells |->
        Con(EQ(water_raster[x], One), pet_raster[x],
            Con(GE(s_pre_r[x], rp_raster[x]), pet_raster[x],
                Con(EQ(rpwp_dif_raster[x], Zero), Zero,
                    Mul(Div(Sub(s_pre_r[x], wp_raster[x]), rpwp_dif_raster[x]),
                        pet_raster[x]))))]

\* overflow without the condition: the excess is taken also when it is negative
overflow_noClamp(p_raster, s_pre_r, fk_raster) ==
    [x \in Cells |-> Sub(Add(p_raster[x], s_pre[x]), fk_raster[x])]

\* overflow reading another module-level grid, s_init, in the true branch
overflow_ofInitial(p_raster, s_pre_r, fk_raster) ==
    [x \in Cells |->
        Con(GT(Add(p_raster[x], s_pre_r[x]), fk_raster[x]),
            Sub(Add(p_raster[x], s_init[x]), fk_raster[x]), Zero)]

\* SWM_ArcGIS.py overflow: the true branch reads the module-level s_pre
overflow(p_raster, s_pre_r, fk_raster) ==
    [x \in Cells |->
        Con(GT(Add(p_raster[x], s_pre_r[x]), fk_raster[x]),
            Sub(Add(p_raster[x], s_pre[x]), fk_raster[x]), Zero)]

\* SWM_ArcGIS.py runoff_land: the quadratic term reads the module-level s_pre
runoff_land(water_raster, lambda_param, wp_raster, p_raster, s_pre_r, fk_raster) ==
    [x \in Cells |->
        Con(EQ(water_raster[x], Zero),
            Add(Mul(lambda_param[x], Sq(Sub(s_pre[x], wp_raster[x]))),
                overflow(p_raster, s_pre_r, fk_raster)[x]),
            Zero)]

\* the water-body term without the condition p > pet
runoff_water_noClamp(water_raster, p_raster, pet_raster) ==
    [x \in Cells |-> Mul(water_raster[x], Sub(p_raster[x], pet_raster[x]))]

\* the water-body term of get_runoff (the same in every script):
\* water_raster * Con(p_raster > pet_raster, p_raster - pet_raster, 0)
runoff_water(water_raster, p_raster, pet_raster) ==
    [x \in Cells |->
        Mul(water_raster[x],
            Con(GT(p_raster[x], pet_raster[x]), Sub(p_raster[x], pet_raster[x]), Zero))]

\* SWM_ArcGIS.py get_runoff
get_runoff(water_raster, lambda_param, wp_raster, p_raster, s_pre_r, fk_raster, pet_raster) ==
    [x \in Cells |->
        Add(runoff_land(water_raster, lambda_param, wp_raster, p_raster, s_pre_r, fk_raster)[x],
            runoff_water(water_raster, p_raster, pet_raster)[x])]

\* SWM_ArcGIS_multi.py / SWM_Console_multi.py get_runoff: the land Con has no
\* false value
get_runoff_multi(water_raster, lambda_param, wp_raster, p_raster, s_pre_r, fc_raster, pet_raster) ==
    [x \in Cells |->
        Add(Con2(EQ(water_raster[x], Zero),
                 Add(Mul(lambda_param[x], Sq(Sub(s_pre_r[x], wp_raster[x]))),
                     Con(GT(Add(p_raster[x], s_pre_r[x]), fc_raster[x]),
                         Sub(Add(p_raster[x], s_pre_r[x]), fc_raster[x]), Zero))),
            runoff_water(water_raster, p_raster, pet_raster)[x])]

\* get_runoff evaluated after the soil water has lost the evaporation of the day
get_runoff_query_updated(water_raster, lambda_wert, wp_raster, p_raster, s_pre_r, fk_raster, pet_raster) ==
    LET s_now == [x \in Cells |-> Sub(s_pre_r[x], pet_raster[x])]
        r_overflow == [x \in Cells |->
            Con(GT(Add(p_raster[x], s_now[x]), fk_raster[x]),
                Sub(Add(p_raster[x], s_now[x]), fk_raster[x]), Zero)]
        r_land == [x \in Cells |->
            Con(EQ(water_raster[x], Zero),
                Add(Mul(lambda_wert[x], Sq(Sub(s_now[x], wp_raster[x]))), r_overflow[x]),
                Zero)]
    IN  [x \in Cells |->
            Add(r_land[x], runoff_water(water_raster, p_raster, pet_raster)[x])]

\* get_runoff without the saturation excess
get_runoff_query_noOverflow(water_raster, lambda_wert, wp_raster, p_raster, s_pre_r, fk_raster, pet_raster) ==
    [x \in Cells |->
        Add(Con(EQ(water_raster[x], Zero),
                Mul(lambda_wert[x], Sq(Sub(s_pre_r[x], wp_raster[x]))), Zero),
            runoff_water(water_raster, p_raster, pet_raster)[x])]

\* SWM_Console_query.py get_runoff
get_runoff_query(water_raster, lambda_wert, wp_raster, p_raster, s_pre_r, fk_raster, pet_raster) ==
    LET r_overflow == [x \in Cells |->
            Con(GT(Add(p_raster[x], s_pre_r[x]), fk_raster[x]),
                Sub(Add(p_raster[x], s_pre_r[x]), fk_raster[x]), Zero)]
        r_land == [x \in Cells |->
            Con(EQ(water_raster[x], Zero),
                Add(Mul(lambda_wert[x], Sq(Sub(s_pre_r[x], wp_raster[x]))), r_overflow[x]),
                Zero)]
    IN  [x \in Cells |->
            Add(r_land[x], runoff_water(water_raster, p_raster, pet_raster)[x])]

\* get_soilwater that leaves the runoff in the soil
get_soilwater_noRunoff(s_pre_r, p_raster, aet_raster, runoff_raster) ==
    [x \in Cells |-> Sub(Add(s_pre_r[x], p_raster[x]), aet_raster[x])]

\* get_soilwater, the raster expression (the same in every script)
get_soilwater(s_pre_r, p_raster, aet_raster, runoff_raster) ==
    [x \in Cells |->
        Sub(Sub(Add(s_pre_r[x], p_raster[x]), aet_raster[x]), runoff_raster[x])]

\* a conversion that multiplies by the cell size instead of the cell area
get_q_m3_perCell(runoff_raster, rastercellsize) ==
    LET array == [x \in Cells |-> IF IsNoData(runoff_raster[x]) THEN Zero ELSE runoff_raster[x]]
        r_sum == SumTo(array, NCells)
    IN  Mul(r_sum, Mul(Rat(1, 1000), rastercellsize))

\* get_q_m3: RasterToNumPyArray(nodata_to_value=0), sum, * 0.001 * cellsize ** 2
get_q_m3(runoff_raster, rastercellsize) ==
    LET array == [x \in Cells |-> IF IsNoData(runoff_raster[x]) THEN Zero ELSE runoff_raster[x]]
        r_sum == SumTo(array, NCells)
    IN  Mul(r_sum, Mul(Rat(1, 1000), Sq(rastercellsize)))

\* delete_raster of SWM_ArcGIS.py: one field of one day
delete_raster(files, yesterday, parameter, bool_parameter) ==
    IF ~bool_parameter THEN files \ {<<parameter, <<>>, yesterday>>} ELSE files

Fields == <<"PET", "AET", "IDW", "R", "S">>
\* delete_raster of the sweep scripts: the five fields of one day of one combination
delete_raster_multi(files, bools, parameter_safe, yesterday) ==
    files \ {<<Fields[i], parameter_safe, yesterday>> : i \in {j \in 1..5 : ~bools[Fields[j]]}}

\* write_to_table of SWM_ArcGIS.py and the sweep scripts: the date string is cut
\* out of str(id_day) as date[-2:], date[-4:-2], date[:4] (Tagesid has 8 digits)
write_to_table(tabs, tablename, result, date) ==
    [tabs EXCEPT ![tablename] =
        Append(@, <<<<date % 100, (date \div 100) % 100, date \div 10000>>, result>>)]

\* arcpy.CreateTable_management with overwriteOutput: a new, empty table
CreateTable(tabs, tablename) ==
    [n \in DOMAIN tabs \cup {tablename} |-> IF n = tablename THEN <<>> ELSE tabs[n]]

\* a cursor whose where clause leaves out the end day
SearchCursor_exclusive(table, lo, hi) ==
    SelectSeq(table, LAMBDA row : row.Tagesid >= lo /\ row.Tagesid < hi)

\* arcpy.da.SearchCursor with the where clause Tagesid >= start AND Tagesid <= end:
\* the rows of the table in storage order
SearchCursor(table, lo, hi) ==
    SelectSeq(table, LAMBDA row : row.Tagesid >= lo /\ row.Tagesid <= hi)

\* get_precipitation: the query table of the day and its IDW surface; with the one
\* modelled station the surface is constant
get_precipitation(timeseries, date) == Const(Whole(timeseries[date]))

RECURSIVE StepList(_, _, _)
\* while lo <= hi: list.append(lo); lo = round(lo + step, 2)
StepList(lo, hi, step) ==
    IF Less(hi, lo) THEN <<>> ELSE <<lo>> \o StepList(Round2(Add(lo, step)), hi, step)

\* a reduction point taken as a fraction of the wilting point
ReductionPoint_ofWp(fk_raster, factor) == [x \in Cells |-> Mul(wp[x], factor)]

\* rp = fk * rp_factor
ReductionPoint(fk_raster, factor) == [x \in Cells |-> Mul(fk_raster[x], factor)]
\* rpwp_dif = rp - wp
RpWpDifference(rp_raster, wp_raster) == [x \in Cells |-> Sub(rp_raster[x], wp_raster[x])]
\* lambda_parameter = c / (L_in_metern * 1000) ** 2
Lambda(cv, l_raster) == [x \in Cells |-> Div(cv, Sq(Mul(l_raster[x], Whole(1000))))]
\* the hundredths k for which the double product (k/100.0)*100 is below k
\* (0.29*100 = 28.999999999999996, 0.57*100 = 56.99999999999999,
\* 0.58*100 = 57.99999999999999); for every other k in 1..100 the product is k
BelowHundredths == {29, 57, 58}
\* rp_factor[z]*100 in double arithmetic, for a factor that is a multiple of 1/100
\* in (0, 1]: the product of a factor in BelowHundredths lies just below the integer
\* (any value strictly between k - 1 and k has the same int())
Times100(factor) ==
    LET exact == Mul(factor, Whole(100))
    IN  IF exact[2] = 1 /\ exact[1] \in BelowHundredths THEN Sub(exact, Rat(1, 2)) ELSE exact
\* parameter_day = (int(rp_factor[z]*100), int(c[y]))
ParameterTuple(factor, cv) == <<PyInt(Times100(factor)), PyInt(cv)>>

(***************************************************************************)
(* Inputs.                                                                 *)
(***************************************************************************)
Scripts == {"SWM_ArcGIS", "SWM_ArcGIS_multi", "SWM_Console_query"}
DayIds == <<20030130, 20030131, 20030201, 20030202>>
Weather == {[RelFeu |-> 50, Temp |-> 0, N |-> 0], [RelFeu |-> 75, Temp |-> 100, N |-> 30]}
Entries == {<<DayIds[i], w>> : i \in DOMAIN DayIds, w \in Weather}
\* tables of at most n rows with distinct Tagesid, in any storage order
StreamsOf(entries, n) ==
    UNION {{t \in [1..k -> entries] : \A i, j \in 1..k : i # j => t[i][1] # t[j][1]} :
           k \in 0..n}
Streams == StreamsOf(Entries, MaxRecords)
\* a row of TempFeuchte: the fields Jahr, Monat, Tag are those of the Tagesid unless
\* the entry gives the field Monat itself
ClimateRow(e) ==
    [Tagesid |-> e[1], Jahr |-> e[1] \div 10000,
     Monat |-> IF "Monat" \in DOMAIN e[2] THEN e[2].Monat ELSE (e[1] \div 100) % 100,
     Tag |-> e[1] % 100, RelFeu |-> e[2].RelFeu, Temp |-> e[2].Temp]
Profiles ==
    <<[water |-> 0, fk |-> 100, wp |-> 20], [water |-> 0, fk |-> 100, wp |-> 85],
      [water |-> 1, fk |-> 100, wp |-> 20], [water |-> 1, fk |-> 100, wp |-> 85]>>
\* the cells of the catchment, up to the order of the cells
Catchments ==
    {[x \in Cells |-> Profiles[k[x]]] :
        k \in {g \in [Cells -> DOMAIN Profiles] : \A i, j \in Cells : i < j => g[i] <= g[j]}}
InitialSoilWater(fkr) == {fkr, Const(Whole(50)), Const(Whole(90))}
Toggles == {[f \in {"PET", "AET", "IDW", "R", "S"} |-> b] : b \in BOOLEAN}
\* rp_factor_min, rp_factor_max, rp_factor_step, c_min, c_max, c_step; a single-run
\* script has the one rp_factor and the one c
Range(rp_min, rp_max, rp_step, c_min, c_max, c_step) ==
    [rp_factor_min |-> rp_min, rp_factor_max |-> rp_max, rp_factor_step |-> rp_step,
     c_min |-> Whole(c_min), c_max |-> Whole(c_max), c_step |-> Whole(c_step)]
SweepInputs(sc) ==
    IF sc = "SWM_ArcGIS_multi"
    THEN {Range(Rat(85, 100), Rat(m, 100), Rat(5, 100), k, 100, 100) :
             m \in {85, 90}, k \in {0, 100}}
    ELSE {Range(Rat(85, 100), Rat(85, 100), Rat(5, 100), 100, 100, 100)}
Unset == Const(NoData)

Representable(g) ==
    \A x \in Cells : IsNoData(g[x]) \/ (g[x][2] <= MaxDen /\ Abs(g[x][1]) <= MaxNum)

\* the module-level setup of a script, up to the first loop
Setup(sc, prof, stream, tg, sw, s0, haude, lo, hi) ==
    /\ script = sc
    /\ fk = [x \in Cells |-> Whole(prof[x].fk)]
    /\ wp = [x \in Cells |-> Whole(prof[x].wp)]
    /\ water = [x \in Cells |-> Whole(prof[x].water)]
    /\ l_m = Const(Rat(1, 10))
    /\ haude_dic = haude
    /\ s_init = s0
    /\ climatedata = [i \in DOMAIN stream |-> ClimateRow(stream[i])]
    /\ p_data = [d \in {DayIds[i] : i \in DOMAIN DayIds} \cup {stream[i][1] : i \in DOMAIN stream}
                    |-> IF \E i \in DOMAIN stream : stream[i][1] = d
                        THEN (CHOOSE e \in {stream[i] : i \in DOMAIN stream} : e[1] = d)[2].N
                        ELSE 0]
    /\ start = lo
    /\ end = hi
    /\ cellsize = Whole(10)
    /\ check = tg
    /\ parameters = sw
    /\ rp_factor = StepList(sw.rp_factor_min, sw.rp_factor_max, sw.rp_factor_step)
    /\ c = StepList(sw.c_min, sw.c_max, sw.c_step)
    /\ s_pre = s0
    /\ id_yesterday = lo
    /\ z = 1
    /\ y = 1
    /\ pet = Unset /\ aet = Unset /\ precipitation = Unset /\ runoff = Unset
    /\ runoff_m3 = NoData /\ s = Unset /\ s_pre_raster = Unset
    /\ log = <<>>
    /\ rasters = {}
    /\ basin = Const(1)
    /\ p_temp = Const(NoData)
    /\ runoff_daily = <<>> /\ id_list = <<>> /\ date_list = <<>>
    /\ IF sc = "SWM_ArcGIS_multi"
       THEN /\ rp = Unset /\ rpwp_dif = Unset /\ lambda_parameter = Unset
            /\ parameter_day = <<0, 0>>
            /\ parameter_yesterday = ParameterTuple(sw.rp_factor_min, sw.c_min)
            /\ outname = <<>>
            /\ tables = <<>>
            /\ cursor = <<>>
            /\ pc = "sweep"
       ELSE /\ rp = ReductionPoint([x \in Cells |-> Whole(prof[x].fk)], sw.rp_factor_min)
            /\ rpwp_dif =
                   RpWpDifference(
                       ReductionPoint([x \in Cells |-> Whole(prof[x].fk)], sw.rp_factor_min),
                       [x \in Cells |-> Whole(prof[x].wp)])
            /\ lambda_parameter = Lambda(sw.c_min, Const(Rat(1, 10)))
            /\ parameter_day = <<0, 0>>
            /\ parameter_yesterday = <<0, 0>>
            /\ outname = <<"Ergebnistabelle">>
            /\ tables = [n \in {<<"Ergebnistabelle">>} |-> <<>>]
            /\ cursor = SearchCursor([i \in DOMAIN stream |-> ClimateRow(stream[i])], lo, hi)
            /\ pc = "days"

Init ==
    \E sc \in Scripts, prof \in Catchments, stream \in Streams, tg \in Toggles :
    \E sw \in SweepInputs(sc) :
    \E s0 \in InitialSoilWater([x \in Cells |-> Whole(prof[x].fk)]) :
        Setup(sc, prof, stream, tg, sw, s0,
              [m \in 1..12 |-> Const(IF m = 1 THEN Rat(40, 61) ELSE Rat(20, 61))],
              DayIds[2], DayIds[3])

(***************************************************************************)
(* The day of a climate row, as every script reads it.                     *)
(***************************************************************************)
\* the assignment s_pre = s left out
Carry_missing(soilwater) == s_pre

\* s_pre = s: the soil water of the day becomes the soil water of the previous day
Carry(soilwater) == soilwater
\* temp = float(row[5]) / 10.0
Temperature(row) == Div(Whole(row.Temp), Whole(10))
Humidity(row) == Whole(row.RelFeu)
LogEntry(row, s_out) ==
    [comb |-> parameter_day, id |-> row.Tagesid,
     first |-> (Len(cursor) = Len(SearchCursor(climatedata, start, end))),
     s_arg |-> s_pre, s_out |-> s_out]
Saved(comb, id_day) == {<<Fields[i], comb, id_day>> : i \in 1..5}
\* the files the delete_raster calls for one day (of one combination) hand to
\* arcpy.Delete_management: those of the fields whose toggle is false
Unwanted(comb, id_day) ==
    {<<Fields[i], comb, id_day>> : i \in {j \in 1..5 : ~check[Fields[j]]}}
\* arcpy.Delete_management: TRUE = the call returns.  Given a dataset that does not
\* exist the tool either returns or raises (ERROR 000732), and the script, which has
\* no try/except and no arcpy.Exists test, stops
Delete_management(files, targets) ==
    IF targets \subseteq files THEN {TRUE} ELSE {TRUE, FALSE}

(***************************************************************************)
(* SWM_ArcGIS.py                                                           *)
(***************************************************************************)
\* the tail of get_pet .. get_soilwater: raster.save("<field>_<date>.tif"), then
\* "if not bool and yesterday != start_id: delete_raster(yesterday, field, bool)"
SaveAndDelete(files, field, date, yesterday, bool_field, start_id) ==
    LET saved == files \cup {<<field, <<>>, date>>}
    IN  IF ~bool_field /\ yesterday # start_id
        THEN delete_raster(saved, yesterday, field, bool_field)
        ELSE saved

RECURSIVE SaveAll(_, _, _, _, _)
\* the five functions of one day, in any order (they touch different files)
SaveAll(files, date, yesterday, start_id, n) ==
    IF n = 0 THEN files
    ELSE SaveAndDelete(SaveAll(files, date, yesterday, start_id, n - 1),
                       Fields[n], date, yesterday, check[Fields[n]], start_id)

\* one pass of "for row in cursor": the five rasters of the day are saved, each
\* function deletes its raster of the previous day, s_pre and id_yesterday move on,
\* the row is written
DayLoop_ArcGIS ==
    /\ script = "SWM_ArcGIS"
    /\ pc = "days"
    /\ cursor # <<>>
    /\ Representable(s_pre)
    /\ LET row == Head(cursor)
           id_day == row.Tagesid
       IN  \E returns \in Delete_management(rasters,
                              IF id_yesterday # start THEN Unwanted(<<>>, id_yesterday)
                              ELSE {}) :
              IF returns
              THEN /\ pet' = get_pet(haude_dic[row.Monat], Temperature(row), Humidity(row))
                   /\ s_pre_raster' = s_pre
                   /\ aet' = get_aet(pet', water, s_pre, rp, rpwp_dif, wp)
                   /\ precipitation' = get_precipitation(p_data, id_day)
                   /\ runoff' = get_runoff(water, lambda_parameter, wp, precipitation', s_pre, fk, pet')
                   /\ runoff_m3' = get_q_m3(runoff', cellsize)
                   /\ s' = get_soilwater(s_pre, precipitation', aet', runoff')
                   /\ s_pre' = Carry(s')
                   /\ id_yesterday' = id_day
                   /\ rasters' = SaveAll(rasters, id_day, id_yesterday, start, 5)
                   /\ tables' = write_to_table(tables, outname, runoff_m3', id_day)
                   /\ log' = Append(log, LogEntry(row, s'))
                   /\ cursor' = Tail(cursor)
                   /\ pc' = pc
              \* the first function of the day that deletes raises: the run stops
              \* before the day's row is written
              ELSE /\ pc' = "failed"
                   /\ UNCHANGED <<day, cursor, tables, rasters>>
    /\ UNCHANGED <<test, static, sweep>>

RECURSIVE DeleteAll(_, _, _)
\* for k in [("PET", check_pet), ...]: delete_raster(i, k[0], k[1])
DeleteAll(files, i, n) ==
    IF n = 0 THEN files
    ELSE delete_raster(DeleteAll(files, i, n - 1), i, Fields[n], check[Fields[n]])

\* after the loop: for i in [start, end]: ... delete_raster(i, k[0], k[1])
Cleanup_ArcGIS ==
    /\ script = "SWM_ArcGIS"
    /\ pc = "days"
    /\ cursor = <<>>
    /\ \E first \in Delete_management(rasters, Unwanted(<<>>, start)) :
       \E second \in Delete_management(DeleteAll(rasters, start, 5), Unwanted(<<>>, end)) :
          IF ~first THEN rasters' = rasters /\ pc' = "failed"
          ELSE IF ~second THEN rasters' = DeleteAll(rasters, start, 5) /\ pc' = "failed"
          ELSE rasters' = DeleteAll(DeleteAll(rasters, start, 5), end, 5) /\ pc' = "done"
    /\ UNCHANGED <<test, static, sweep, day, cursor, tables>>

(***************************************************************************)
(* SWM_ArcGIS_multi.py and SWM_Console_multi.py                            *)
(***************************************************************************)
\* the head of the body of "for y in range(len(c))", with the head of the body of
\* "for z in range(len(rp_factor))" before it when y is the first index
BeginCombination ==
    /\ script = "SWM_ArcGIS_multi"
    /\ pc = "sweep"
    /\ LET rp_r == IF y = 1 THEN ReductionPoint(fk, rp_factor[z]) ELSE rp
       IN  /\ rp' = rp_r
           /\ rpwp_dif' = IF y = 1 THEN RpWpDifference(rp_r, wp) ELSE rpwp_dif
    /\ lambda_parameter' = Lambda(c[y], l_m)
    /\ parameter_day' = ParameterTuple(rp_factor[z], c[y])
    /\ outname' = <<"Ergebnis">> \o ParameterTuple(rp_factor[z], c[y])
    /\ tables' = CreateTable(tables, <<"Ergebnis">> \o ParameterTuple(rp_factor[z], c[y]))
    /\ cursor' = SearchCursor(climatedata, start, end)
    /\ pc' = "days"
    /\ UNCHANGED <<test, static, day, z, y, parameter_yesterday, rasters>>

\* one pass of "for row in cursor" of the sweep scripts
DayLoop_multi ==
    /\ script = "SWM_ArcGIS_multi"
    /\ pc = "days"
    /\ cursor # <<>>
    /\ Representable(s_pre)
    /\ LET row == Head(cursor)
           id_day == row.Tagesid
           kept == rasters \cup Saved(parameter_day, id_day)
       IN  /\ pet' = get_pet(haude_dic[row.Monat], Temperature(row), Humidity(row))
           /\ s_pre_raster' = s_pre
           /\ aet' = get_aet(pet', water, s_pre, rp, rpwp_dif, wp)
           /\ precipitation' = get_precipitation(p_data, id_day)
           /\ runoff' = get_runoff_multi(water, lambda_parameter, wp, precipitation', s_pre, fk, pet')
           /\ runoff_m3' = get_q_m3(runoff', cellsize)
           /\ s' = get_soilwater(s_pre, precipitation', aet', runoff')
           /\ s_pre' = Carry(s')
           /\ tables' = write_to_table(tables, outname, runoff_m3', id_day)
           /\ log' = Append(log, LogEntry(row, s'))
           /\ cursor' = Tail(cursor)
           /\ \E returns \in Delete_management(kept,
                                  IF id_yesterday # start
                                  THEN Unwanted(parameter_day, id_yesterday) ELSE {}) :
                 IF returns
                 THEN /\ rasters' = IF id_yesterday # start
                                    THEN delete_raster_multi(kept, check, parameter_day,
                                                             id_yesterday)
                                    ELSE kept
                      /\ id_yesterday' = id_day
                      /\ pc' = pc
                 ELSE /\ rasters' = kept
                      /\ id_yesterday' = id_yesterday
                      /\ pc' = "failed"
    /\ UNCHANGED <<test, static, sweep>>

\* the tail of the body of "for y": the rasters of the start day of this
\* combination, the rasters of the end day of the previous combination
EndCombination ==
    /\ script = "SWM_ArcGIS_multi"
    /\ pc = "days"
    /\ cursor = <<>>
    /\ LET first == delete_raster_multi(rasters, check, parameter_day, start)
       IN  \E one \in Delete_management(rasters, Unwanted(parameter_day, start)) :
           \E two \in Delete_management(first,
                           IF parameter_yesterday # parameter_day
                           THEN Unwanted(parameter_yesterday, end) ELSE {}) :
              IF ~one \/ ~two
              THEN /\ rasters' = IF one THEN first ELSE rasters
                   /\ pc' = "failed"
                   /\ UNCHANGED <<parameter_yesterday, y, z>>
              ELSE /\ rasters' = IF parameter_yesterday # parameter_day
                                 THEN delete_raster_multi(first, check, parameter_yesterday,
                                                          end)
                                 ELSE first
                   /\ parameter_yesterday' = parameter_day
                   /\ IF y < Len(c)
                      THEN y' = y + 1 /\ z' = z /\ pc' = "sweep"
                      ELSE IF z < Len(rp_factor)
                           THEN y' = 1 /\ z' = z + 1 /\ pc' = "sweep"
                           ELSE y' = y /\ z' = z /\ pc' = "final"
    /\ UNCHANGED <<test, static, day, rp, rpwp_dif, lambda_parameter, parameter_day, outname,
                   cursor, tables>>

\* after the loops: the rasters of the end day of the last combination
FinalCleanup_multi ==
    /\ script = "SWM_ArcGIS_multi"
    /\ pc = "final"
    /\ \E returns \in Delete_management(rasters, Unwanted(parameter_day, end)) :
          IF returns
          THEN rasters' = delete_raster_multi(rasters, check, parameter_day, end) /\ pc' = "done"
          ELSE rasters' = rasters /\ pc' = "failed"
    /\ UNCHANGED <<test, static, sweep, day, cursor, tables>>

(***************************************************************************)
(* SWM_Console_query.py                                                    *)
(***************************************************************************)
\* one pass of "for row in cursor": a raster is saved only when its toggle is set,
\* the row [Datum, Q, Tages_ID] is inserted (the copy R_32 of the runoff raster is
\* created and deleted inside the pass)
DayLoop_query ==
    /\ script = "SWM_Console_query"
    /\ pc = "days"
    /\ cursor # <<>>
    /\ Representable(s_pre)
    /\ LET row == Head(cursor)
           id_day == row.Tagesid
       IN  /\ pet' = get_pet(haude_dic[row.Monat], Temperature(row), Humidity(row))
           /\ s_pre_raster' = s_pre
           /\ aet' = get_aet(pet', water, s_pre, rp, rpwp_dif, wp)
           /\ precipitation' = get_precipitation(p_data, id_day)
           /\ runoff' = get_runoff_query(water, lambda_parameter, wp, precipitation', s_pre, fk, pet')
           /\ runoff_m3' = get_q_m3(runoff', cellsize)
           /\ s' = get_soilwater(s_pre, precipitation', aet', runoff')
           /\ s_pre' = Carry(s')
           /\ rasters' = rasters \cup
                  {<<Fields[i], <<>>, id_day>> : i \in {j \in 1..5 : check[Fields[j]]}}
           /\ tables' = [tables EXCEPT ![outname] =
                            Append(@, <<<<row.Tag, row.Monat, row.Jahr>>, runoff_m3', id_day>>)]
           /\ log' = Append(log, LogEntry(row, s'))
           /\ cursor' = Tail(cursor)
    /\ UNCHANGED <<test, static, sweep, pc, id_yesterday>>

\* del cursor: the script ends
End_query ==
    /\ script = "SWM_Console_query"
    /\ pc = "days"
    /\ cursor = <<>>
    /\ pc' = "done"
    /\ UNCHANGED <<test, static, sweep, day, cursor, tables, rasters>>

Next ==
    \/ DayLoop_ArcGIS
    \/ Cleanup_ArcGIS
    \/ BeginCombination
    \/ DayLoop_multi
    \/ EndCombination
    \/ FinalCleanup_multi
    \/ DayLoop_query
    \/ End_query

Spec == Init /\ [][Next]_vars

(***************************************************************************)
(* Runs over a period of three days: climate tables with gaps, with rows   *)
(* outside the period and in any storage order; sweeps over several        *)
(* rp_factor and c ranges; mixed persistence toggles.  The cells are water *)
(* cells, or one land cell and water cells; the soil water starts at the   *)
(* field capacity.                                                         *)
(***************************************************************************)
RunDayIds == <<20030130, 20030131, 20030201, 20030202, 20030203>>
\* with the Haude factor 160/61 and 0 degrees: pet = 16 * (1 - RelFeu/100)
RunWeather ==
    <<[RelFeu |-> 50, Temp |-> 0, N |-> 0], [RelFeu |-> 0, Temp |-> 0, N |-> 0],
      [RelFeu |-> 50, Temp |-> 0, N |-> 5], [RelFeu |-> 50, Temp |-> 0, N |-> 12],
      [RelFeu |-> 50, Temp |-> 0, N |-> 0]>>
RunEntries == {<<RunDayIds[i], RunWeather[i]>> : i \in DOMAIN RunDayIds}
RunCatchments ==
    {[x \in Cells |-> IF x = 1 THEN first ELSE Profiles[3]] : first \in {Profiles[2], Profiles[3]}}
RunToggles ==
    Toggles \cup {[f \in {"PET", "AET", "IDW", "R", "S"} |-> f \in {"AET", "R"}]}
RunSweeps(sc) ==
    IF sc = "SWM_ArcGIS_multi"
    THEN {Range(Rat(85, 100), Rat(85, 100), Rat(5, 100), 0, 0, 100),
          Range(Rat(85, 100), Rat(90, 100), Rat(5, 100), 0, 100, 100),
          Range(Rat(56, 100), Rat(57, 100), Rat(1, 100), 0, 0, 100),
          Range(Rat(85, 100), Rat(90, 100), Rat(24, 1000), 0, 0, 100)}
    ELSE {Range(Rat(85, 100), Rat(85, 100), Rat(5, 100), 0, 0, 100)}

InitRun ==
    \E sc \in Scripts, prof \in RunCatchments, stream \in StreamsOf(RunEntries, MaxDays) :
    \E tg \in RunToggles, sw \in RunSweeps(sc) :
        Setup(sc, prof, stream, tg, sw, [x \in Cells |-> Whole(prof[x].fk)],
              [m \in 1..12 |-> Const(Rat(160, 61))], RunDayIds[2], RunDayIds[4])

SpecRun == InitRun /\ [][Next]_vars

(***************************************************************************)
(* Runs over climate tables whose relative humidity is 100 or lies outside *)
(* 0..100, with a Haude grid that differs from month to month and a row    *)
(* whose field Monat is not the month of its Tagesid.                      *)
(***************************************************************************)
\* with the Haude factor 10*m/61 of month m and 0 degrees: pet = m * (1 - RelFeu/100)
PetWeather ==
    {[RelFeu |-> 100, Temp |-> 100, N |-> 0], [RelFeu |-> 120, Temp |-> 0, N |-> 0],
     [RelFeu |-> -10, Temp |-> 100, N |-> 0],
     [RelFeu |-> 50, Temp |-> 0, N |-> 0, Monat |-> 3]}
PetEntries == {<<DayIds[i], w>> : i \in DOMAIN DayIds, w \in PetWeather}
InitPet ==
    \E sc \in Scripts, prof \in RunCatchments, stream \in StreamsOf(PetEntries, MaxRecords) :
    \E tg \in Toggles, sw \in SweepInputs(sc) :
        Setup(sc, prof, stream, tg, sw, [x \in Cells |-> Whole(prof[x].fk)],
              [m \in 1..12 |-> Const(Rat(10 * m, 61))], DayIds[2], DayIds[3])

SpecPet == InitPet /\ [][Next]_vars

(***************************************************************************)
(* The construction of the sweep lists (SWM_ArcGIS_multi.py l.299-306),    *)
(* one pass of a while loop per step.  The loops use rp_factor_min and     *)
(* c_min as their loop variables: here the fields of parameters are the    *)
(* variables of the script, not the values as entered.                     *)
(***************************************************************************)
ListInputs ==
    {Range(Rat(lo, 100), Rat(hi, 100), Rat(step, 1000), cl, ch, cs) :
        lo \in {56, 85}, hi \in {50, 57, 85, 90}, step \in {4, 10, 24, 50},
        cl \in {0, 100}, ch \in {0, 100}, cs \in {50, 100}}
InitList ==
    \E sw \in ListInputs :
        /\ script = "SWM_ArcGIS_multi"
        /\ parameters = sw
        /\ rp_factor = <<>>
        /\ c = <<>>
        /\ pc = "rp_factor"
        /\ fk = Const(Whole(100)) /\ wp = Const(Whole(20)) /\ water = Const(Zero)
        /\ l_m = Const(Rat(1, 10))
        /\ haude_dic = [m \in 1..12 |-> Const(Rat(20, 61))]
        /\ s_init = Const(Whole(100)) /\ s_pre = Const(Whole(100))
        /\ climatedata = <<>>
        /\ p_data = [d \in {DayIds[i] : i \in DOMAIN DayIds} |-> 0]
        /\ start = DayIds[2] /\ end = DayIds[3] /\ id_yesterday = DayIds[2]
        /\ cellsize = Whole(10)
        /\ check = [f \in {"PET", "AET", "IDW", "R", "S"} |-> TRUE]
        /\ z = 1 /\ y = 1
        /\ rp = Unset /\ rpwp_dif = Unset /\ lambda_parameter = Unset
        /\ parameter_day = <<0, 0>> /\ parameter_yesterday = <<0, 0>>
        /\ outname = <<>> /\ tables = <<>> /\ cursor = <<>>
        /\ pet = Unset /\ aet = Unset /\ precipitation = Unset /\ runoff = Unset
        /\ runoff_m3 = NoData /\ s = Unset /\ s_pre_raster = Unset
        /\ log = <<>> /\ rasters = {}
        /\ basin = Const(1) /\ p_temp = Const(NoData)
        /\ runoff_daily = <<>> /\ id_list = <<>> /\ date_list = <<>>

\* one evaluation of "while rp_factor_min <= rp_factor_max" with the body
\* rp_factor.append(rp_factor_min); rp_factor_min = round(rp_factor_min + rp_factor_step, 2)
RpFactorLoop ==
    /\ pc = "rp_factor"
    /\ Len(rp_factor) < MaxList
    /\ IF ~Less(parameters.rp_factor_max, parameters.rp_factor_min)
       THEN /\ rp_factor' = Append(rp_factor, parameters.rp_factor_min)
            /\ parameters' = [parameters EXCEPT !.rp_factor_min =
                                  Round2(Add(@, parameters.rp_factor_step))]
            /\ pc' = pc
       ELSE /\ pc' = "c"
            /\ UNCHANGED <<rp_factor, parameters>>
    /\ UNCHANGED <<test, script, fk, wp, water, l_m, haude_dic, s_init, climatedata, p_data, start,
                   end, cellsize, c, check, sweep, day, cursor, tables, rasters>>

\* one evaluation of "while c_min <= c_max" with the body
\* c.append(c_min); c_min = round(c_min + c_step, 2)
CLoop ==
    /\ pc = "c"
    /\ Len(c) < MaxList
    /\ IF ~Less(parameters.c_max, parameters.c_min)
       THEN /\ c' = Append(c, parameters.c_min)
            /\ parameters' = [parameters EXCEPT !.c_min = Round2(Add(@, parameters.c_step))]
            /\ pc' = pc
       ELSE /\ pc' = "listed"
            /\ UNCHANGED <<c, parameters>>
    /\ UNCHANGED <<test, script, fk, wp, water, l_m, haude_dic, s_init, climatedata, p_data, start,
                   end, cellsize, rp_factor, check, sweep, day, cursor, tables, rasters>>

NextList ==
    \/ RpFactorLoop
    \/ CLoop

SpecList == InitList /\ [][NextList]_vars

(***************************************************************************)
(* SWM_Test.py: the precipitation stations carry their measurement in the  *)
(* table p_temp (one station per cell, in the middle of it), the runoff is *)
(* summed per polygon of the basin with ZonalStatisticsAsTable, and the    *)
(* result table is written after the day loop from three lists.            *)
(***************************************************************************)
MaxZone == NCells
TestPeriod == {DayIds[2], DayIds[3]}
TestEntries == {<<DayIds[i], [RelFeu |-> 50, Temp |-> 0, N |-> 0]>> : i \in DOMAIN DayIds}
\* every row N_Zeitreihen can hold for the period: one per station and day, each with
\* a Tagessumme_mm of its own
FullSeries ==
    [n \in 1..(2 * NCells) |->
        [Stationsnummer |-> ((n - 1) % NCells) + 1,
         Tagessumme_mm |-> 10 * (((n - 1) % NCells) + 1) + 5 * ((n - 1) \div NCells),
         TagesID |-> DayIds[2 + ((n - 1) \div NCells)]]]
\* N_Zeitreihen: any of the rows may be missing
Timeseries ==
    {SelectSeq(FullSeries, LAMBDA r : <<r.Stationsnummer, r.TagesID>> \in m) :
        m \in SUBSET (Cells \X TestPeriod)}
\* EZG_Schotten2_Vektor as the Id of the polygon over each cell, 0 where there is none
Basins == [Cells -> 0..MaxZone]

\* the SearchCursor of get_precipitation: the rows of the day, in storage order
Measured(timeseries, date) == SelectSeq(timeseries, LAMBDA r : r.TagesID = date)

RECURSIVE UpdateCursor(_, _, _)
\* for i in range(len(station)): the row of p_temp whose Stationsnummer is station[i]
\* gets p_sum[i]; every other row is written back as it is
UpdateCursor(p_stations_temp, rows, n) ==
    IF n = 0 THEN p_stations_temp
    ELSE [UpdateCursor(p_stations_temp, rows, n - 1)
             EXCEPT ![rows[n].Stationsnummer] = Whole(rows[n].Tagessumme_mm)]

RECURSIVE IdwSum(_, _, _, _)
\* the sum of w(k) * value(k) (weighted = TRUE) or of w(k) over the stations k <= n
\* that hold a value, with w(k) = 1 / distance ** 1 (idw_exponent = "1")
IdwSum(p_stations_temp, x, n, weighted) ==
    IF n = 0 THEN Zero
    ELSE Add(IdwSum(p_stations_temp, x, n - 1, weighted),
             IF n = x \/ IsNoData(p_stations_temp[n]) THEN Zero
             ELSE Mul(IF weighted THEN p_stations_temp[n] ELSE One, Rat(1, Abs(x - n))))

\* Idw(p_stations_temp, "Tagessumme_mm", ...): a station without a value (Null) is
\* left out; the cell of a station with a value gets that value
Idw(p_stations_temp) ==
    [x \in Cells |->
        IF ~IsNoData(p_stations_temp[x]) THEN p_stations_temp[x]
        ELSE Div(IdwSum(p_stations_temp, x, NCells, TRUE),
                 IdwSum(p_stations_temp, x, NCells, FALSE))]

RECURSIVE ZonalStatisticsAsTable(_, _, _)
\* ZonalStatisticsAsTable(basin, "Id", r, "Q_day", "true", "SUM"): one row per Id up
\* to k that has a cell with a value, the rows in the order of the Id, each with the
\* Sum of the values of its cells
ZonalStatisticsAsTable(zones, values, k) ==
    IF k = 0 THEN <<>>
    ELSE ZonalStatisticsAsTable(zones, values, k - 1) \o
         (IF \E x \in Cells : zones[x] = k /\ ~IsNoData(values[x])
          THEN <<SumTo([x \in Cells |-> IF zones[x] = k /\ ~IsNoData(values[x])
                                        THEN values[x] ELSE Zero], NCells)>>
          ELSE <<>>)

\* for r_sum in r_cursor: runoff_daily.append(r_sum[0] * 0.001 * cellsize ** 2)
Discharges(q_day, rastercellsize) ==
    [i \in DOMAIN q_day |-> Mul(q_day[i], Mul(Rat(1, 1000), Sq(rastercellsize)))]

\* set_resulttable: the table is created, then for i in range(len(list_id)) the row
\* [list_date[i], list_runoff[i], list_id[i]] is inserted; kept is the number of
\* rows the table holds when the function is left
set_resulttable(tabs, tablename, list_date, list_runoff, list_id, kept) ==
    [CreateTable(tabs, tablename) EXCEPT ![tablename] =
        [i \in 1..kept |-> <<list_date[i], list_runoff[i], list_id[i]>>]]

InitTest ==
    \E prof \in RunCatchments, stream \in StreamsOf(TestEntries, MaxRecords) :
    \E zones \in Basins, series \in Timeseries :
        /\ script = "SWM_Test"
        /\ fk = [x \in Cells |-> Whole(prof[x].fk)]
        /\ wp = [x \in Cells |-> Whole(prof[x].wp)]
        /\ water = [x \in Cells |-> Whole(prof[x].water)]
        /\ l_m = Const(Rat(1, 10))
        /\ haude_dic = [m \in 1..12 |-> Const(Rat(160, 61))]
        /\ s_init = fk /\ s_pre = s_init
        /\ climatedata = [i \in DOMAIN stream |-> ClimateRow(stream[i])]
        /\ p_data = series
        /\ basin = zones
        /\ p_temp = Const(NoData)
        /\ runoff_daily = <<>> /\ id_list = <<>> /\ date_list = <<>>
        /\ start = DayIds[2] /\ end = DayIds[3] /\ id_yesterday = DayIds[2]
        /\ cellsize = Whole(10)
        /\ check = [f \in {"PET", "AET", "IDW", "R", "S"} |-> FALSE]
        /\ parameters = Range(Rat(85, 100), Rat(85, 100), Rat(5, 100), 100, 100, 100)
        /\ rp_factor = <<Rat(85, 100)>> /\ c = <<Whole(100)>>
        /\ z = 1 /\ y = 1
        /\ rp = ReductionPoint(fk, Rat(85, 100))
        /\ rpwp_dif = RpWpDifference(rp, wp)
        /\ lambda_parameter = Lambda(Whole(100), l_m)
        /\ parameter_day = <<0, 0>> /\ parameter_yesterday = <<0, 0>>
        /\ outname = <<"Ergebnistabelle">>
        /\ tables = <<>>
        /\ cursor = SearchCursor(climatedata, start, end)
        /\ pet = Unset /\ aet = Unset /\ precipitation = Unset /\ runoff = Unset
        /\ runoff_m3 = NoData /\ s = Unset /\ s_pre_raster = Unset
        /\ log = <<>> /\ rasters = {}
        /\ pc = "days"

\* one pass of "for row in cursor".  get_precipitation ends with "del information":
\* on a day without a row in N_Zeitreihen the name was never bound and the script
\* stops there.  ZonalStatisticsAsTable over a basin without a polygon either
\* returns a table without rows or raises.
DayLoop_Test ==
    /\ script = "SWM_Test"
    /\ pc = "days"
    /\ cursor # <<>>
    /\ Representable(s_pre)
    /\ LET row == Head(cursor)
           id_day == row.Tagesid
           rows == Measured(p_data, id_day)
       IN  /\ p_temp' = UpdateCursor(p_temp, rows, Len(rows))
           /\ \E returns \in IF \E x \in Cells : basin[x] # 0 THEN {TRUE} ELSE {TRUE, FALSE} :
                IF rows # <<>> /\ returns
                THEN /\ pet' = get_pet(haude_dic[row.Monat], Temperature(row), Humidity(row))
                     /\ s_pre_raster' = s_pre
                     /\ aet' = get_aet(pet', water, s_pre, rp, rpwp_dif, wp)
                     /\ precipitation' = Idw(p_temp')
                     /\ runoff' = get_runoff_query(water, lambda_parameter, wp, precipitation',
                                                   s_pre, fk, pet')
                     /\ tables' = [n \in DOMAIN tables \cup {<<"Q_day">>} |->
                                      IF n = <<"Q_day">>
                                      THEN ZonalStatisticsAsTable(basin, runoff', MaxZone)
                                      ELSE tables[n]]
                     /\ s' = get_soilwater(s_pre, precipitation', aet', runoff')
                     /\ s_pre' = Carry(s')
                     /\ runoff_daily' = runoff_daily \o Discharges(tables'[<<"Q_day">>], cellsize)
                     /\ id_list' = Append(id_list, id_day)
                     /\ date_list' = Append(date_list, <<row.Tag, row.Monat, row.Jahr>>)
                     /\ log' = Append(log, [comb |-> parameter_day, id |-> id_day,
                                            first |-> (Len(cursor) = Len(SearchCursor(climatedata, start, end))),
                                            s_arg |-> s_pre, s_out |-> s',
                                            sums |-> Discharges(tables'[<<"Q_day">>], cellsize)])
                     /\ cursor' = Tail(cursor)
                     /\ pc' = pc
                ELSE /\ pc' = "failed"
                     /\ UNCHANGED <<pet, s_pre_raster, aet, precipitation, runoff, tables, s,
                                    s_pre, runoff_daily, id_list, date_list, log, cursor>>
    /\ UNCHANGED <<static, sweep, basin, id_yesterday, runoff_m3, rasters>>

\* after the loop: set_resulttable(arcpy.env.workspace, outname, date_list,
\* runoff_daily, id_list), then "del cursor", "del row", "del r_cursor".  With fewer
\* discharges than days list_runoff[i] raises IndexError; the rows inserted before
\* it through the cursor, which is never released, may or may not have reached the
\* table.  Without a day "del result" raises NameError.
End_Test ==
    /\ script = "SWM_Test"
    /\ pc = "days"
    /\ cursor = <<>>
    /\ LET n == Len(id_list)
           m == IF Len(runoff_daily) < n THEN Len(runoff_daily) ELSE n
       IN  /\ \E kept \in IF m < n THEN 0..m ELSE {n} :
                tables' = set_resulttable(tables, outname, date_list, runoff_daily, id_list, kept)
           /\ pc' = IF n = 0 \/ m < n THEN "failed" ELSE "done"
    /\ UNCHANGED <<static, sweep, day, cursor, rasters, test>>

NextTest ==
    \/ DayLoop_Test
    \/ End_Test

SpecTest == InitTest /\ [][NextTest]_vars

(***************************************************************************)
(* Properties.                                                             *)
(***************************************************************************)
SingleRun == {"SWM_ArcGIS", "SWM_Console_query"}
InRange == SearchCursor(climatedata, start, end)
\* the day loop is at its start: the cursor has not returned a row yet
AtLoopStart == pc = "days" /\ Len(cursor) = Len(InRange)
\* the last step was a pass of the day loop: pet, aet, precipitation, runoff and s
\* are the rasters of that day, s_pre_raster the soil water they were computed from,
\* rp, rpwp_dif and lambda_parameter the parameters they were computed with
AfterDay == pc = "days" /\ Len(cursor) < Len(InRange)
Land(x) == water[x] = Zero
Lake(x) == water[x] = One
Defined(v) == ~IsNoData(v)
MaxZero(v) == IF Less(Zero, v) THEN v ELSE Zero
LCM(a, b) == (a \div GCD(a, b)) * b
\* the numerator of v over the denominator dd (a multiple of the denominator of v)
Over(v, dd) == v[1] * (dd \div v[2])

RECURSIVE RunAlone(_, _, _, _)
\* the result rows of the sweep script run with the one combination (factor, cv),
\* from the initial soil water s0 (as far as the arithmetic stays representable)
RunAlone(rows, s0, factor, cv) ==
    IF rows = <<>> \/ ~Representable(s0) THEN <<>>
    ELSE LET row == Head(rows)
             rp_r == ReductionPoint(fk, factor)
             pet_r == get_pet(haude_dic[row.Monat], Temperature(row), Humidity(row))
             aet_r == get_aet(pet_r, water, s0, rp_r, RpWpDifference(rp_r, wp), wp)
             p_r == get_precipitation(p_data, row.Tagesid)
             r_r == get_runoff_multi(water, Lambda(cv, l_m), wp, p_r, s0, fk, pet_r)
             id == row.Tagesid
         IN  <<<<<<id % 100, (id \div 100) % 100, id \div 10000>>, get_q_m3(r_r, cellsize)>>>>
             \o RunAlone(Tail(rows), get_soilwater(s0, p_r, aet_r, r_r), factor, cv)

\* C1 (as claimed): in a sweep the day loop of every combination starts with
\* s_pre equal to the initial soil water s_init
C1_EveryCombinationStartsFromInitial ==
    (script = "SWM_ArcGIS_multi" /\ AtLoopStart) => s_pre = s_init

\* C2 (as claimed): the rows a combination writes inside a sweep are the rows it
\* writes when it runs as the only combination
C2_SweepIndependence ==
    (script = "SWM_ArcGIS_multi" /\ pc = "days") =>
        LET got == tables[outname]
            alone == RunAlone(InRange, s_init, rp_factor[z], c[y])
            n == IF Len(got) < Len(alone) THEN Len(got) ELSE Len(alone)
        IN  SubSeq(got, 1, n) = SubSeq(alone, 1, n)

\* C3: in the single-run scripts the soil water passed to get_aet, get_runoff and
\* get_soilwater is s_init on the first processed day and, on every later day, the
\* soil water get_soilwater returned for the day processed just before
C3_StateChaining ==
    script \in SingleRun =>
        /\ \A i \in DOMAIN log :
              log[i].s_arg = IF i = 1 THEN s_init ELSE log[i - 1].s_out
        /\ log # <<>> => (s_pre_raster = log[Len(log)].s_arg /\ s = log[Len(log)].s_out)
C3_Witness ==
    /\ script \in SingleRun
    /\ Len(log) = 2
    /\ log[2].s_arg # s_init
    /\ log[2].s_arg = log[1].s_out

\* C4: after a day, in every cell the new soil water is
\* s_pre + precipitation - aet - runoff, not clamped (NoData where a term is NoData)
C4_MassBalance ==
    AfterDay =>
        /\ aet = get_aet(pet, water, s_pre_raster, rp, rpwp_dif, wp)
        /\ \A x \in Cells :
            IF Defined(s_pre_raster[x]) /\ Defined(precipitation[x]) /\ Defined(aet[x])
               /\ Defined(runoff[x])
            THEN /\ Defined(s[x])
                 /\ LET dd == LCM(LCM(s_pre_raster[x][2], precipitation[x][2]),
                                  LCM(LCM(aet[x][2], runoff[x][2]), s[x][2]))
                    IN  Over(s[x], dd) = Over(s_pre_raster[x], dd) + Over(precipitation[x], dd)
                                         - Over(aet[x], dd) - Over(runoff[x], dd)
            ELSE IsNoData(s[x])
\* a land cell whose four terms are all non-zero, and a land cell whose new soil
\* water differs from the previous one and is left below the wilting point
C4_Witness ==
    /\ AfterDay
    /\ \E x \in Cells :
          /\ Land(x)
          /\ precipitation[x] # Zero /\ aet[x] # Zero /\ runoff[x] # Zero
    /\ \E x \in Cells :
          Land(x) /\ s[x] # s_pre_raster[x] /\ Less(s[x], wp[x])

\* C5: on a water cell aet is pet, whatever the soil water, the reduction point, the
\* wilting point and rpwp_dif
C5_WaterCellAetIsPet ==
    AfterDay => \A x \in Cells : Lake(x) => aet[x] = pet[x]
\* a water cell below the reduction point with rpwp_dif = 0
C5_Witness ==
    /\ AfterDay
    /\ \E x \in Cells :
          /\ Lake(x) /\ rpwp_dif[x] = Zero /\ pet[x] # Zero
          /\ Defined(s_pre_raster[x]) /\ Less(s_pre_raster[x], rp[x])

\* C6: in a cell whose previous soil water is at or above the reduction point aet is
\* pet, on land and on water, also when rpwp_dif = 0
C6_AboveReductionPoint ==
    AfterDay =>
        \A x \in Cells :
            (Defined(s_pre_raster[x]) /\ ~Less(s_pre_raster[x], rp[x])) => aet[x] = pet[x]
\* a land cell at or above the reduction point with rpwp_dif = 0
C6_Witness ==
    /\ AfterDay
    /\ \E x \in Cells :
          /\ Land(x) /\ rpwp_dif[x] = Zero /\ pet[x] # Zero
          /\ ~Less(s_pre_raster[x], rp[x])

\* C7: on a land cell with rpwp_dif = 0 below the reduction point aet is 0; in no
\* cell with rpwp_dif = 0 is aet the (undefined) quotient by rpwp_dif
C7_DivisionByZeroGuard ==
    AfterDay =>
        \A x \in Cells :
            rpwp_dif[x] = Zero =>
                /\ Defined(aet[x])
                /\ aet[x] = pet[x] \/ aet[x] = Zero
                /\ (Land(x) /\ Less(s_pre_raster[x], rp[x])) => aet[x] = Zero
C7_Witness ==
    /\ AfterDay
    /\ \E x \in Cells :
          /\ Land(x) /\ rpwp_dif[x] = Zero /\ pet[x] # Zero
          /\ Less(s_pre_raster[x], rp[x])
          /\ aet[x] = Zero

\* C8: on a land cell below the reduction point with rpwp_dif # 0,
\* aet * rpwp_dif = pet * (s_pre - wp)
C8_LinearStress ==
    AfterDay =>
        \A x \in Cells :
            (Land(x) /\ Less(s_pre_raster[x], rp[x]) /\ rpwp_dif[x] # Zero) =>
                /\ Defined(aet[x])
                /\ Mul(aet[x], rpwp_dif[x]) = Mul(pet[x], Sub(s_pre_raster[x], wp[x]))
\* fk = 100, wp = 20, rp_factor = 0.85, s_pre = 50: aet * 65 = pet * 30
C8_Witness ==
    /\ AfterDay
    /\ \E x \in Cells :
          /\ Land(x) /\ fk[x] = Whole(100) /\ wp[x] = Whole(20) /\ rp[x] = Whole(85)
          /\ rpwp_dif[x] = Whole(65) /\ s_pre_raster[x] = Whole(50) /\ pet[x] # Zero
          /\ aet[x][1] * 65 * pet[x][2] = pet[x][1] * 30 * aet[x][2]

\* C9 (as claimed): in every script the runoff of a land cell is
\* lambda * (s_pre - wp)^2 + overflow and the runoff of a water cell is the defined
\* number max(0, precipitation - pet)
C9_RunoffIsLandPlusWater ==
    AfterDay =>
        \A x \in Cells :
            /\ Land(x) =>
                  runoff[x] = Add(Mul(lambda_parameter[x], Sq(Sub(s_pre_raster[x], wp[x]))),
                                  MaxZero(Sub(Add(precipitation[x], s_pre_raster[x]), fk[x])))
            /\ Lake(x) =>
                  /\ Defined(runoff[x])
                  /\ runoff[x] = MaxZero(Sub(precipitation[x], pet[x]))

\* C10: the overflow term of a land cell (its runoff less the quadratic term) is
\* precipitation + s_pre - fk when that is positive and 0 otherwise
C10_Overflow ==
    AfterDay =>
        \A x \in Cells :
            Land(x) =>
                LET term == Sub(runoff[x],
                                Mul(lambda_parameter[x], Sq(Sub(s_pre_raster[x], wp[x]))))
                    excess == Sub(Add(precipitation[x], s_pre_raster[x]), fk[x])
                IN  /\ Less(Zero, excess) => term = excess
                    /\ ~Less(Zero, excess) => term = Zero
\* precipitation = 30, s_pre = 90, fk = 100: the overflow term is 20
C10_Witness ==
    /\ AfterDay
    /\ \E x \in Cells :
          /\ Land(x) /\ precipitation[x] = Whole(30) /\ s_pre_raster[x] = Whole(90)
          /\ fk[x] = Whole(100)
          /\ Sub(runoff[x], Mul(lambda_parameter[x], Sq(Sub(s_pre_raster[x], wp[x]))))
                = Whole(20)

(***************************************************************************)
(* Properties of the runs over three days (SpecRun) and of the result      *)
(* tables.                                                                 *)
(***************************************************************************)
\* date[-2:], date[-4:-2], date[:4] of an eight-digit Tagesid: day, month, year
DateOf(id) == <<id % 100, (id \div 100) % 100, id \div 10000>>

Selected == {i \in DOMAIN climatedata :
                start <= climatedata[i].Tagesid /\ climatedata[i].Tagesid <= end}

\* C12: in the single-run scripts the result table holds one row for every climate
\* record with start <= Tagesid <= end that the loop has passed, in the order of the
\* records, and no other row; the day loop does not fail, whatever days are missing;
\* every processed day starts from the soil water of the day processed before it
C12_RowsPerRun ==
    script \in SingleRun =>
        LET rows == tables[outname]
        IN  /\ pc = "failed" => cursor = <<>>
            /\ Len(rows) + Len(cursor) = Cardinality(Selected)
            /\ \A k \in DOMAIN rows :
                  \E i \in Selected :
                     /\ Cardinality({j \in Selected : j <= i}) = k
                     /\ rows[k][1] = DateOf(climatedata[i].Tagesid)
            /\ Len(log) = Len(rows)
            /\ \A k \in DOMAIN log :
                  log[k].s_arg = IF k = 1 THEN s_init ELSE log[k - 1].s_out
\* a finished run over a table with a row outside the period, rows for the first and
\* the last day of the period and no row for the day between them
C12_Witness ==
    /\ script \in SingleRun /\ pc = "done"
    /\ \E i \in DOMAIN climatedata : i \notin Selected
    /\ {climatedata[i].Tagesid : i \in Selected} = {start, end}
    /\ end - start > 1
    /\ Len(tables[outname]) = 2
    /\ log[1].s_out # s_init /\ log[2].s_arg = log[1].s_out

\* C13 (as claimed): within one day loop every processed Tagesid is greater than the
\* Tagesid processed before it, whatever the storage order of the climate table
C13_AscendingOrder ==
    \A k \in DOMAIN log :
        (k > 1 /\ ~log[k].first) => log[k].id > log[k - 1].id

\* the number of values lo, lo + step, lo + 2*step, ... that do not exceed hi
Steps(lo, hi, step) == IF Less(hi, lo) THEN 0 ELSE Floor(Div(Sub(hi, lo), step)) + 1
\* the k-th of them
Stepped(lo, step, k) == Add(lo, Mul(Whole(k - 1), step))
\* the number of combinations whose body has been entered
Begun == (z - 1) * Len(c) + y - (IF pc = "sweep" THEN 1 ELSE 0)
\* the day loops that have started (on a table with records in the period)
Simulations == {k \in DOMAIN log : log[k].first}

\* C14 (as claimed): the sweep lists are min, min + step, min + 2*step, ... up to the
\* last value not above max; the combination in progress is the pair (z-th rp_factor,
\* y-th c) of these lists; a finished sweep has run one simulation for every pair
C14_CartesianProduct ==
    script = "SWM_ArcGIS_multi" =>
        LET n_rp == Steps(parameters.rp_factor_min, parameters.rp_factor_max,
                          parameters.rp_factor_step)
            n_c == Steps(parameters.c_min, parameters.c_max, parameters.c_step)
        IN  /\ Len(rp_factor) = n_rp /\ Len(c) = n_c
            /\ \A k \in DOMAIN rp_factor :
                  /\ rp_factor[k] =
                        Stepped(parameters.rp_factor_min, parameters.rp_factor_step, k)
                  /\ ~Less(parameters.rp_factor_max, rp_factor[k])
            /\ \A k \in DOMAIN c :
                  /\ c[k] = Stepped(parameters.c_min, parameters.c_step, k)
                  /\ ~Less(parameters.c_max, c[k])
            /\ pc = "days" =>
                  /\ rp = ReductionPoint(fk, Stepped(parameters.rp_factor_min,
                                                      parameters.rp_factor_step, z))
                  /\ lambda_parameter =
                        Lambda(Stepped(parameters.c_min, parameters.c_step, y), l_m)
            /\ pc = "done" =>
                  /\ Begun = n_rp * n_c
                  /\ InRange # <<>> => Cardinality(Simulations) = n_rp * n_c

\* C15 (as claimed): every combination that has begun has a result table of its own
\* (as many tables as combinations begun, so no name is shared and no table is created
\* again), the rows of the combination in progress are in its table, one per day
\* processed, and every finished table has one row per day of the period
C15_OwnTable ==
    (script = "SWM_ArcGIS_multi" /\ pc # "failed") =>
        /\ Cardinality(DOMAIN tables) = Begun
        /\ pc = "days" =>
              /\ outname \in DOMAIN tables
              /\ Len(tables[outname]) = Len(InRange) - Len(cursor)
        /\ \A n \in DOMAIN tables :
              (pc # "days" \/ n # outname) => Len(tables[n]) = Len(InRange)

\* C16: after a day's step the discharge is the sum of that day's runoff over the cells
\* that have a value (a NoData cell adds nothing), times 0.001, times the square of the
\* cell size, and it is the discharge written in the row of that day
C16_Discharge ==
    AfterDay =>
        /\ Mul(Whole(1000), runoff_m3) =
              Mul(Sq(cellsize),
                  SumTo([x \in Cells |-> IF Defined(runoff[x]) THEN runoff[x] ELSE Zero],
                        NCells))
        /\ tables[outname] # <<>>
        /\ tables[outname][Len(tables[outname])][2] = runoff_m3
C16_Witness ==
    /\ AfterDay
    /\ \E x \in Cells : ~Defined(runoff[x])
    /\ \E x \in Cells : Defined(runoff[x]) /\ Less(Zero, runoff[x])
    /\ Less(Zero, runoff_m3)
    /\ tables[outname][Len(tables[outname])][2] = runoff_m3

\* the combination part of the file names of the k-th processed day
FileComb(k) == IF script = "SWM_ArcGIS_multi" THEN log[k].comb ELSE <<>>

\* C17 (as claimed): when a run of SWM_ArcGIS.py or of a sweep script has ended, no
\* raster is left of a field whose toggle is false, and every raster of every processed
\* day (and combination) is left of a field whose toggle is true
C17_TerminalCleanup ==
    (script \in {"SWM_ArcGIS", "SWM_ArcGIS_multi"} /\ pc = "done") =>
        \A i \in 1..5 :
            IF check[Fields[i]]
            THEN \A k \in DOMAIN log : <<Fields[i], FileComb(k), log[k].id>> \in rasters
            ELSE \A file \in rasters : file[1] # Fields[i]

\* the days processed so far in the day loop in progress
Processed == SubSeq(InRange, 1, Len(InRange) - Len(cursor))

\* C18 (as claimed): while the day loop of SWM_ArcGIS.py runs, the rasters of a field
\* whose toggle is false that are on disk are those of the first processed day and of
\* the most recent processed day: a day between them lost its rasters in the step of
\* the day after it (it was the most recent day until then)
C18_RasterLifetime ==
    (script = "SWM_ArcGIS" /\ pc = "days") =>
        \A i \in 1..5 : ~check[Fields[i]] =>
            \A k \in DOMAIN Processed :
                (<<Fields[i], <<>>, Processed[k].Tagesid>> \in rasters)
                    <=> (k = 1 \/ k = Len(Processed))

\* C19 (as claimed): every row of every result table has the three entries date,
\* discharge, day id; the day id is that of a climate record and the date is the day,
\* the month and the year of that day id
C19_ResultRow ==
    \A n \in DOMAIN tables : \A k \in DOMAIN tables[n] :
        /\ Len(tables[n][k]) = 3
        /\ \E i \in DOMAIN climatedata : climatedata[i].Tagesid = tables[n][k][3]
        /\ tables[n][k][1] = DateOf(tables[n][k][3])

\* the input contract of the soil water chain: the run started from the field capacity,
\* the wilting point is not above the field capacity, the reduction factors are in
\* (0, 1], the routing coefficients and the precipitation are not negative and the
\* relative humidity of every record is within 0..100
InputContract ==
    /\ s_init = fk
    /\ \A x \in Cells : Defined(fk[x]) /\ Defined(wp[x]) /\ ~Less(fk[x], wp[x])
    /\ \A k \in DOMAIN rp_factor : Less(Zero, rp_factor[k]) /\ ~Less(One, rp_factor[k])
    /\ \A k \in DOMAIN c : ~Less(c[k], Zero)
    /\ \A id \in DOMAIN p_data : p_data[id] >= 0
    /\ \A i \in DOMAIN climatedata :
          climatedata[i].RelFeu >= 0 /\ climatedata[i].RelFeu <= 100

\* C20 (as claimed): under the input contract the soil water of a land cell is never
\* below the wilting point after a day's step
C20_AboveWiltingPoint ==
    (InputContract /\ AfterDay) =>
        \A x \in Cells :
            (water[x] = Zero /\ Defined(s[x])) => ~Less(s[x], wp[x])

\* C21: while the day loop of a combination runs, the reduction point is the field
\* capacity times the rp_factor of the combination, rpwp_dif is the reduction point
\* minus the wilting point and lambda is the c of the combination over (1000 * root
\* depth) squared, cell by cell; no step inside the day loop changes these grids, the
\* field capacity, the wilting point, the water mask, the root depth or a Haude grid
C21_StaticParameters ==
    /\ [](pc = "days" =>
            LET factor == IF script = "SWM_ArcGIS_multi" THEN rp_factor[z]
                          ELSE parameters.rp_factor_min
                cv == IF script = "SWM_ArcGIS_multi" THEN c[y] ELSE parameters.c_min
            IN  \A x \in Cells :
                   /\ rp[x] = Mul(fk[x], factor)
                   /\ rpwp_dif[x] = Sub(Mul(fk[x], factor), wp[x])
                   /\ lambda_parameter[x] = Div(cv, Sq(Mul(Whole(1000), l_m[x]))))
    /\ [][(pc = "days" /\ pc' = "days") =>
             UNCHANGED <<fk, wp, water, l_m, haude_dic, rp, rpwp_dif, lambda_parameter>>]_vars
C21_Witness ==
    /\ script = "SWM_ArcGIS_multi"
    /\ AfterDay
    /\ z = 2 /\ y = 2
    /\ \E x \in Cells : rp[x] = Whole(90) /\ rpwp_dif[x] = Whole(5)
                        /\ lambda_parameter[x] = Rat(1, 100)

\* the climate record of the day processed last
LastRow == Processed[Len(Processed)]

LandRunoff(x, sv) ==
    Add(Mul(lambda_parameter[x], Sq(Sub(sv, wp[x]))),
        MaxZero(Sub(Add(precipitation[x], sv), fk[x])))
\* the actual evapotranspiration of a cell from the soil water sv of the previous day
CellAet(x, sv) ==
    IF Lake(x) \/ ~Less(sv, rp[x]) THEN pet[x]
    ELSE IF rpwp_dif[x] = Zero THEN Zero
    ELSE Mul(Div(Sub(sv, wp[x]), rpwp_dif[x]), pet[x])

\* C23: after a day's step the aet, the runoff and the new soil water are the values
\* computed from one and the same soil water of the previous day (the argument logged
\* for the day), the discharge is the aggregate of that day's runoff, and s_pre is the
\* new soil water
C23_EvaluationOrder ==
    AfterDay =>
        /\ log[Len(log)].s_arg = s_pre_raster
        /\ log[Len(log)].s_out = s
        /\ s_pre = s
        /\ Mul(Whole(1000), runoff_m3) =
              Mul(Sq(cellsize),
                  SumTo([x \in Cells |-> IF Defined(runoff[x]) THEN runoff[x] ELSE Zero],
                        NCells))
        /\ \A x \in Cells : Defined(s_pre_raster[x]) =>
              /\ aet[x] = CellAet(x, s_pre_raster[x])
              /\ Land(x) => runoff[x] = LandRunoff(x, s_pre_raster[x])
              /\ s[x] = Sub(Sub(Add(s_pre_raster[x], precipitation[x]), aet[x]), runoff[x])
C23_Witness ==
    /\ AfterDay
    /\ \E x \in Cells :
          /\ Land(x)
          /\ Defined(s[x]) /\ s[x] # s_pre_raster[x]
          /\ Less(Zero, aet[x]) /\ Less(Zero, runoff[x])
          /\ runoff[x] = LandRunoff(x, s_pre_raster[x])
          /\ runoff[x] # LandRunoff(x, s[x])
          /\ runoff[x] # LandRunoff(x, Sub(s_pre_raster[x], aet[x]))
          /\ aet[x] # CellAet(x, s[x])

\* the number of day steps of a run that runs to its end
AllDays ==
    IF script = "SWM_ArcGIS_multi" THEN Len(rp_factor) * Len(c) * Len(InRange)
    ELSE Len(InRange)

\* C24 (as claimed): a run that has ended has processed every day of every
\* combination, as the run with every toggle set does (it deletes nothing), and holds
\* every raster of the processed days of each field whose toggle is set, whatever the
\* toggles of the other fields
C24_ToggleIndependence ==
    pc \in {"done", "failed"} =>
        /\ Len(log) = AllDays
        /\ \A i \in 1..5 : check[Fields[i]] =>
              \A k \in DOMAIN log : <<Fields[i], FileComb(k), log[k].id>> \in rasters

\* the file behind s_pre once a day has been processed: the soil water raster the
\* last get_soilwater saved
SoilWaterFile == <<"S", FileComb(Len(log)), log[Len(log)].id>>

\* C25 (as claimed): whenever a day's step is about to read the soil water of the
\* previous day from a raster saved by get_soilwater, that raster is on disk
C25_NoUseAfterDelete ==
    (script \in {"SWM_ArcGIS", "SWM_ArcGIS_multi"} /\ pc = "days" /\ cursor # <<>>
        /\ log # <<>>) => SoilWaterFile \in rasters

\* C26: after a day's step the soil water of a land cell is at most the field
\* capacity whenever the day's aet and lambda are not negative there, whatever the
\* soil water of the previous day and the precipitation
C26_AtMostFieldCapacity ==
    AfterDay =>
        \A x \in Cells :
            (Land(x) /\ Defined(s[x]) /\ ~Less(aet[x], Zero)
                /\ ~Less(lambda_parameter[x], Zero)) => ~Less(fk[x], s[x])
C26_Witness ==
    /\ AfterDay
    /\ \E x \in Cells :
          /\ Land(x) /\ Defined(s[x])
          /\ Less(fk[x], Add(s_pre_raster[x], precipitation[x]))
          /\ Less(Zero, aet[x])
          /\ Less(s[x], fk[x])

\* C27 (as claimed): every pass of a list loop that leaves the loop running has
\* strictly increased its loop variable (so a loop with a positive step ends), and a
\* loop that has ended with an empty list had min above max
C27_ListsTerminate ==
    /\ [][/\ (pc = "rp_factor" /\ pc' = "rp_factor") =>
                Less(parameters.rp_factor_min, parameters'.rp_factor_min)
          /\ (pc = "c" /\ pc' = "c") => Less(parameters.c_min, parameters'.c_min)]_vars
    /\ []((pc # "rp_factor" /\ rp_factor = <<>>) =>
             Less(parameters.rp_factor_max, parameters.rp_factor_min))
    /\ []((pc = "listed" /\ c = <<>>) => Less(parameters.c_max, parameters.c_min))

\* the discharges of the day with the Tagesid id_day, as the day loop of SWM_Test.py
\* computed them from the runoff of that day
DischargesOf(id_day) ==
    UNION {{log[k].sums[j] : j \in DOMAIN log[k].sums} : k \in {n \in DOMAIN log : log[n].id = id_day}}

\* C28 (as claimed): the result table SWM_Test.py writes has one row per processed
\* day, and the discharge of a row is one that was computed from the runoff of the day
\* whose Tages_ID and date the row holds, whatever the number of rows the zonal sum
\* returns per day
C28_ResultPairing ==
    (script = "SWM_Test" /\ outname \in DOMAIN tables) =>
        /\ Len(tables[outname]) = Len(log)
        /\ \A i \in DOMAIN tables[outname] :
              /\ i <= Len(log)
              /\ tables[outname][i][3] = log[i].id
              /\ tables[outname][i][1] =
                     <<log[i].id % 100, (log[i].id \div 100) % 100, log[i].id \div 10000>>
              /\ tables[outname][i][2] \in DischargesOf(tables[outname][i][3])

\* the Tagessumme_mm N_Zeitreihen holds for a station and a day, Null without a row
Measurement(station, id_day) ==
    IF \E n \in DOMAIN p_data :
           p_data[n].Stationsnummer = station /\ p_data[n].TagesID = id_day
    THEN Whole(p_data[CHOOSE n \in DOMAIN p_data :
                   p_data[n].Stationsnummer = station /\ p_data[n].TagesID = id_day].Tagessumme_mm)
    ELSE NoData

\* C29 (as claimed): after a processed day of SWM_Test.py the table p_temp holds for every
\* station its measurement of that day, and no value for a station without a
\* measurement of that day; the precipitation of the day is interpolated from these
C29_MeasurementOfTheDay ==
    (script = "SWM_Test" /\ log # <<>> /\ pc # "failed") =>
        /\ \A st \in Cells : p_temp[st] = Measurement(st, log[Len(log)].id)
        /\ precipitation = Idw([st \in Cells |-> Measurement(st, log[Len(log)].id)])

\* C30: overflow and runoff_land of SWM_ArcGIS.py (SWM_Console.py has the same two
\* functions and the same calls) read the module-level s_pre where they have the
\* parameter s_pre_raster; at the calls of a day the two are the same grid, s_pre
\* being reassigned only after get_soilwater has returned, and the runoff of the day
\* is the one the parameter alone gives
C30_ModuleLevelSoilWater ==
    (script = "SWM_ArcGIS" /\ AfterDay) =>
        /\ s_pre_raster = log[Len(log)].s_arg
        /\ runoff = get_runoff_query(water, lambda_parameter, wp, precipitation,
                                     s_pre_raster, fk, pet)
        /\ s = get_soilwater(s_pre_raster, precipitation, aet, runoff)
        /\ s_pre = s

\* a second day of SWM_ArcGIS.py on which a land cell overflows, its soil water of
\* the previous day being neither the initial one nor the one of the day
C30_Witness ==
    /\ script = "SWM_ArcGIS" /\ AfterDay /\ Len(log) = 2
    /\ \E x \in Cells :
          /\ Land(x)
          /\ Less(fk[x], Add(precipitation[x], s_pre_raster[x]))
          /\ s_pre_raster[x] # s_init[x]
          /\ s_pre_raster[x] # s_pre[x]

====
